---- MODULE Spec2Model ----
(***************************************************************************)
(* Model of src/common/graph.py: class Graph (vertex_on_border,            *)
(* district_id_on_border_of_vertex, state, vertices) and class Vertex      *)
(* (prescinct_id, district_id, adj_vertices).                              *)
(*                                                                         *)
(* A state of the model is the state of one Graph object between two       *)
(* calls of its methods.  The tensor self.state is modelled by its column  *)
(* 0, one entry per vertex id (columns 1.. hold the zero padded neighbour  *)
(* ids, written once by graph_from_json and never again).  A tensor        *)
(* descriptor [a, b, c] is modelled by the tuple <<a, b, c>>.              *)
(***************************************************************************)
EXTENDS Integers, Sequences, FiniteSets, TLC

(* Bounds of the model. *)
NumVertices == 4
NumDistricts == 3

VertexIds == 1..NumVertices
DistrictIds == 1..NumDistricts

VARIABLES
    adj_vertices,                    \* Vertex.adj_vertices, per vertex id
    district_id,                     \* Vertex.district_id, per vertex id
    vertex_on_border,                \* Graph.vertex_on_border: (vertex, district) -> descriptor
    district_id_on_border_of_vertex, \* Graph.district_id_on_border_of_vertex: vertex -> set
    state,                           \* Graph.state[:, 0]
    discovered,                      \* get_border_vertices has returned at least once
    last,                            \* how the last call ended
    last_moved,                      \* the vertex the last call moved, 0 when it moved none
    df                               \* the rows graph_from_json is given, <<>> once they are gone

vars == <<adj_vertices, district_id, vertex_on_border,
          district_id_on_border_of_vertex, state, discovered, last,
          last_moved, df>>

----------------------------------------------------------------------------
(* Python containers *)

\* d[k] = v on a dict
DictSet(d, k, v) == [x \in (DOMAIN d) \cup {k} |-> IF x = k THEN v ELSE d[x]]

\* d.pop(k) on a dict that holds k
DictPop(d, k) == [x \in (DOMAIN d) \ {k} |-> d[x]]

EmptyDict == [x \in {} |-> 0]

\* iteration order of a set of small ints, and of the vertices dict
\* (insertion order, the order of the data frame's index)
RECURSIVE IterOrder(_)
IterOrder(S) ==
    IF S = {} THEN <<>>
    ELSE LET m == CHOOSE x \in S : \A y \in S : x <= y
         IN <<m>> \o IterOrder(S \ {m})

----------------------------------------------------------------------------
(* The border record b = [vertex_on_border, district_id_on_border_of_vertex,
   state, raised] is the part of the Graph the loops below write; raised
   names the exception that ended the call, "" when none did. *)

Border(vob, dob, st) ==
    [vertex_on_border |-> vob,
     district_id_on_border_of_vertex |-> dob,
     state |-> st,
     raised |-> ""]

\* the descriptor update_border stores (mutant: the neighbour's district in
\* the own-district field)
DescriptorAdjOnly(dist, v, a) == <<v, dist[a], dist[a]>>

Descriptor(dist, v, a) == <<v, dist[v], dist[a]>>

\* Graph.update_border(vertex, adj_vertex)
update_border(b, dist, v, a) ==
    LET dob == b.district_id_on_border_of_vertex
        dob1 == IF v \in DOMAIN dob THEN dob ELSE DictSet(dob, v, {})
    IN [b EXCEPT
          !.vertex_on_border = DictSet(@, <<v, dist[a]>>, Descriptor(dist, v, a)),
          !.state = [@ EXCEPT ![v] = -dist[v]],
          !.district_id_on_border_of_vertex =
              [dob1 EXCEPT ![v] = @ \cup {dist[a]}]]

\* the test is dropped: every neighbour is recorded (mutant)
AnyNeighbour(dist, v, a) == TRUE

\* if vertex.district_id != adj_vertex.district_id
DistrictsDiffer(dist, v, a) == dist[v] # dist[a]

\* for adj_vertex_id in vertex.adj_vertices: if districts differ: update_border
RECURSIVE ScanAdjacent(_, _, _, _)
ScanAdjacent(b, dist, v, todo) ==
    IF todo = <<>> \/ b.raised # "" THEN b
    ELSE LET a == Head(todo)
             b1 == IF DistrictsDiffer(dist, v, a)
                   THEN update_border(b, dist, v, a) ELSE b
         IN ScanAdjacent(b1, dist, v, Tail(todo))

\* get_border_vertices: every vertex, every neighbour of it
RECURSIVE ScanVertices(_, _, _, _)
ScanVertices(b, dist, adj, todo) ==
    IF todo = <<>> \/ b.raised # "" THEN b
    ELSE LET v == Head(todo)
         IN ScanVertices(ScanAdjacent(b, dist, v, IterOrder(adj[v])),
                         dist, adj, Tail(todo))

get_border_vertices(b, dist, adj) ==
    ScanVertices(b, dist, adj, IterOrder(DOMAIN dist))

\* one turn of the removal loop, with the district set entry left in place
\* (mutant)
RemoveEntryKeepSet(b, dist, w, d) ==
    IF <<w, d>> \notin DOMAIN b.vertex_on_border
    THEN [b EXCEPT !.raised = "KeyError"]
    ELSE [b EXCEPT
            !.vertex_on_border = DictPop(@, <<w, d>>),
            !.state = [@ EXCEPT ![w] = dist[w]]]

\* one turn of the removal loop, with the mirror left as it is (mutant)
RemoveEntryKeepMirror(b, dist, w, d) ==
    IF <<w, d>> \notin DOMAIN b.vertex_on_border
    THEN [b EXCEPT !.raised = "KeyError"]
    ELSE [b EXCEPT
            !.vertex_on_border = DictPop(@, <<w, d>>),
            !.district_id_on_border_of_vertex = [@ EXCEPT ![w] = @ \ {d}]]

\* one turn of the removal loop: pop the key, remove the district from the
\* vertex's set, write the district back to the mirror
RemoveEntry(b, dist, w, d) ==
    IF <<w, d>> \notin DOMAIN b.vertex_on_border
    THEN [b EXCEPT !.raised = "KeyError"]
    ELSE [b EXCEPT
            !.vertex_on_border = DictPop(@, <<w, d>>),
            !.district_id_on_border_of_vertex = [@ EXCEPT ![w] = @ \ {d}],
            !.state = [@ EXCEPT ![w] = dist[w]]]

RECURSIVE RemoveEntries(_, _, _, _)
RemoveEntries(b, dist, w, todo) ==
    IF todo = <<>> \/ b.raised # "" THEN b
    ELSE RemoveEntries(RemoveEntry(b, dist, w, Head(todo)), dist, w, Tail(todo))

\* the removal is left out (mutant)
RemoveBorderInfoSkipped(b, dist, w) == b

\* the removal resets both mappings instead of the vertex's entries (mutant)
RemoveBorderInfoOfAll(b, dist, w) ==
    [b EXCEPT !.vertex_on_border = EmptyDict,
              !.district_id_on_border_of_vertex = EmptyDict]

\* "we remove all border information related to that vertex"
RemoveBorderInfo(b, dist, w) ==
    IF w \in DOMAIN b.district_id_on_border_of_vertex
    THEN RemoveEntries(b, dist, w,
                       IterOrder(b.district_id_on_border_of_vertex[w]))
    ELSE b

\* the loop body rebuilds first and removes afterwards (mutant)
RecomputeVertexRemoveLast(b, dist, adj, w) ==
    RemoveBorderInfo(ScanAdjacent(b, dist, w, IterOrder(adj[w])), dist, w)

\* the body of the loop over list_to_check_possible_actions
RecomputeVertex(b, dist, adj, w) ==
    ScanAdjacent(RemoveBorderInfo(b, dist, w), dist, w, IterOrder(adj[w]))

RECURSIVE RecomputeVertices(_, _, _, _)
RecomputeVertices(b, dist, adj, todo) ==
    IF todo = <<>> \/ b.raised # "" THEN b
    ELSE RecomputeVertices(RecomputeVertex(b, dist, adj, Head(todo)),
                           dist, adj, Tail(todo))

\* the list without the moved vertex itself (mutant)
NeighboursOnly(adj, v) == IterOrder(adj[v])

\* the neighbours of the moved vertex, then the moved vertex
list_to_check_possible_actions(adj, v) == IterOrder(adj[v]) \o <<v>>

\* the first check of change_vertex_district
AlreadyInDistrict(dist, v, d) == d = dist[v]

\* the second check accepts any vertex that has some border entry (mutant)
NotOnAnyBorder(vob, v, d) == \A k \in DOMAIN vob : k[1] # v

\* the second check of change_vertex_district
NotOnBorder(vob, v, d) == <<v, d>> \notin DOMAIN vob

\* the mirror is written before the checks (mutant)
RaisedAfterMirrorWrite(b, v, d) == [b EXCEPT !.state = [@ EXCEPT ![v] = d]]

\* what a call that raises ValueError leaves behind: nothing is assigned
\* before either raise
RaisedValueError(b, v, d) == b

\* the mirror entry of the moved vertex is written after the loop instead
\* of before it (mutant)
MoveVertexMirrorLast(b, dist, adj, v, d) ==
    LET dist1 == [dist EXCEPT ![v] = d]
        b1 == RecomputeVertices(b, dist1, adj,
                                list_to_check_possible_actions(adj, v))
    IN [district_id |-> dist1,
        border |-> [b1 EXCEPT !.state = [@ EXCEPT ![v] = d]]]

\* every vertex of the old district is moved along (mutant)
MoveVertexWholeDistrict(b, dist, adj, v, d) ==
    LET dist1 == [w \in DOMAIN dist |-> IF dist[w] = dist[v] THEN d ELSE dist[w]]
        b1 == [b EXCEPT !.state = [@ EXCEPT ![v] = d]]
    IN [district_id |-> dist1,
        border |-> RecomputeVertices(b1, dist1, adj,
                                     list_to_check_possible_actions(adj, v))]

\* the part of change_vertex_district after the checks
MoveVertex(b, dist, adj, v, d) ==
    LET dist1 == [dist EXCEPT ![v] = d]
        b1 == [b EXCEPT !.state = [@ EXCEPT ![v] = d]]
    IN [district_id |-> dist1,
        border |-> RecomputeVertices(b1, dist1, adj,
                                     list_to_check_possible_actions(adj, v))]

----------------------------------------------------------------------------
(* Construction *)

\* the neighbour lists the loader hands over: every edge is listed at both
\* of its ends, no vertex lists itself.  The edges are drawn from the ring
\* 1-2-...-NumVertices-1 and the chord 1-3.
CandidateEdges ==
    {{u, u + 1} : u \in VertexIds \ {NumVertices}}
        \cup {{1, NumVertices}, {1, 3}}

AdjacencyOf(edges) == [v \in VertexIds |-> {u \in VertexIds : {u, v} \in edges}]

SymmetricAdjacencies == {AdjacencyOf(edges) : edges \in SUBSET CandidateEdges}

\* districts are numbered in the order in which the rows first name them
FirstAppearanceOrder(dist) ==
    \A v \in VertexIds :
        \/ dist[v] = 1
        \/ \E u \in VertexIds : u < v /\ dist[u] = dist[v] - 1

InitialDistricts ==
    {dist \in [VertexIds -> DistrictIds] : FirstAppearanceOrder(dist)}

\* the loader seeds the border mappings itself (mutant)
InitWithBorders ==
    /\ adj_vertices \in SymmetricAdjacencies
    /\ district_id \in [VertexIds -> DistrictIds]
    /\ \A v \in VertexIds :
          \/ district_id[v] = 1
          \/ \E u \in VertexIds : u < v /\ district_id[u] = district_id[v] - 1
    /\ \E b \in {ScanVertices([vertex_on_border |-> <<>>,
                                district_id_on_border_of_vertex |-> <<>>,
                                state |-> district_id, raised |-> ""],
                               district_id, adj_vertices,
                               IterOrder(VertexIds))} :
          /\ vertex_on_border = b.vertex_on_border
          /\ district_id_on_border_of_vertex = b.district_id_on_border_of_vertex
          /\ state = b.state
    /\ discovered = FALSE
    /\ last = "graph_from_json"
    /\ last_moved = 0
    /\ df = <<>>

\* the Graph after __init__ and graph_from_json
Init ==
    /\ adj_vertices \in SymmetricAdjacencies
    /\ district_id \in InitialDistricts
    /\ vertex_on_border = EmptyDict
    /\ district_id_on_border_of_vertex = EmptyDict
    /\ state = district_id
    /\ discovered = FALSE
    /\ last = "graph_from_json"
    /\ last_moved = 0
    /\ df = <<>>

----------------------------------------------------------------------------
(* Calls *)

CurrentBorder == Border(vertex_on_border, district_id_on_border_of_vertex, state)

Outcome(b, returned) == IF b.raised = "" THEN returned ELSE b.raised

GetBorderVertices ==
    \E b \in {get_border_vertices(CurrentBorder, district_id, adj_vertices)} :
       /\ vertex_on_border' = b.vertex_on_border
       /\ district_id_on_border_of_vertex' = b.district_id_on_border_of_vertex
       /\ state' = b.state
       /\ discovered' = TRUE
       /\ last' = Outcome(b, "get_border_vertices returned")
       /\ last_moved' = 0
       /\ UNCHANGED <<adj_vertices, district_id, df>>

ChangeVertexDistrict(v, d) ==
    IF AlreadyInDistrict(district_id, v, d) \/ NotOnBorder(vertex_on_border, v, d)
    THEN \E b \in {RaisedValueError(CurrentBorder, v, d)} :
            /\ vertex_on_border' = b.vertex_on_border
            /\ district_id_on_border_of_vertex' = b.district_id_on_border_of_vertex
            /\ state' = b.state
            /\ last' = IF AlreadyInDistrict(district_id, v, d)
                       THEN "ValueError: already in the district"
                       ELSE "ValueError: not on the border"
            /\ last_moved' = 0
            /\ UNCHANGED <<adj_vertices, district_id, discovered, df>>
    ELSE \E m \in {MoveVertex(CurrentBorder, district_id, adj_vertices, v, d)} :
            /\ district_id' = m.district_id
            /\ vertex_on_border' = m.border.vertex_on_border
            /\ district_id_on_border_of_vertex' =
                   m.border.district_id_on_border_of_vertex
            /\ state' = m.border.state
            /\ last' = Outcome(m.border, "change_vertex_district returned")
            /\ last_moved' = IF m.border.raised = "" THEN v ELSE 0
            /\ UNCHANGED <<adj_vertices, discovered, df>>

Next ==
    \/ GetBorderVertices
    \/ \E v \in VertexIds, d \in DistrictIds : ChangeVertexDistrict(v, d)

Spec == Init /\ [][Next]_vars

----------------------------------------------------------------------------
(* Neighbour lists that are not symmetric: set_adj stores whatever list a
   row gives, so u may list v while v does not list u. *)

\* adj with v taken out of the list of u
WithoutArc(adj, u, v) == [adj EXCEPT ![u] = @ \ {v}]

AsymmetricAdjacencies ==
    {WithoutArc(adj, u, v) :
        adj \in SymmetricAdjacencies, u \in VertexIds, v \in VertexIds}
      \ SymmetricAdjacencies

InitAsym ==
    /\ adj_vertices \in AsymmetricAdjacencies
    /\ district_id \in InitialDistricts
    /\ vertex_on_border = EmptyDict
    /\ district_id_on_border_of_vertex = EmptyDict
    /\ state = district_id
    /\ discovered = FALSE
    /\ last = "graph_from_json"
    /\ last_moved = 0
    /\ df = <<>>

SpecAsym == InitAsym /\ [][Next]_vars

----------------------------------------------------------------------------
(* Loading: graph_from_json on the rows of the data frame.  A row is
   [prescinct_id, district_id, adj]: the index, row['cd_2020'], row['adj'].
   Here the mirror has the rows the tensor has, 0 .. len(vertices) - 1. *)

MaxRows == 2

RowIds == 0..MaxRows

Rows ==
    [prescinct_id : RowIds, district_id : DistrictIds, adj : SUBSET RowIds]

DataFrames == UNION {[1..n -> Rows] : n \in 0..MaxRows}

\* for index, row in df.iterrows(): self.vertices[prescinct_id] = vertex
RECURSIVE LoadVertices(_, _)
LoadVertices(vertices, rows) ==
    IF rows = <<>> THEN vertices
    ELSE LET row == Head(rows)
             vertex == [district_id |-> row.district_id, adj_vertices |-> row.adj]
         IN LoadVertices(DictSet(vertices, row.prescinct_id, vertex), Tail(rows))

\* the keys of self.vertices in insertion order
RECURSIVE InsertionOrder(_, _)
InsertionOrder(rows, seen) ==
    IF rows = <<>> THEN <<>>
    ELSE LET id == Head(rows).prescinct_id
         IN IF id \in seen THEN InsertionOrder(Tail(rows), seen)
            ELSE <<id>> \o InsertionOrder(Tail(rows), seen \cup {id})

\* for vertex_id, vertex in self.vertices.items(): self.state[vertex_id, 0] = ...
RECURSIVE FillMirror(_, _, _)
FillMirror(m, vertices, todo) ==
    IF todo = <<>> THEN m
    ELSE LET id == Head(todo)
         IN IF id \notin DOMAIN m.state
            THEN [m EXCEPT !.raised = "IndexError"]
            ELSE FillMirror([m EXCEPT !.state[id] = vertices[id].district_id],
                            vertices, Tail(todo))

graph_from_json(rows) ==
    LET vertices == LoadVertices(EmptyDict, rows)
        zeros == [i \in 0..(Cardinality(DOMAIN vertices) - 1) |-> 0]
    IN [vertices |-> vertices,
        mirror |-> FillMirror([state |-> zeros, raised |-> ""], vertices,
                              InsertionOrder(rows, {}))]

\* the Graph after __init__, with the rows it is about to load
InitEmpty ==
    /\ df \in DataFrames
    /\ adj_vertices = EmptyDict
    /\ district_id = EmptyDict
    /\ vertex_on_border = EmptyDict
    /\ district_id_on_border_of_vertex = EmptyDict
    /\ state = EmptyDict
    /\ discovered = FALSE
    /\ last = "__init__"
    /\ last_moved = 0

GraphFromJson ==
    /\ last = "__init__"
    /\ \E g \in {graph_from_json(df)} :
          /\ district_id' = [id \in DOMAIN g.vertices |-> g.vertices[id].district_id]
          /\ adj_vertices' = [id \in DOMAIN g.vertices |-> g.vertices[id].adj_vertices]
          /\ state' = g.mirror.state
          /\ last' = Outcome(g.mirror, "graph_from_json returned")
    /\ UNCHANGED <<vertex_on_border, district_id_on_border_of_vertex,
                   discovered, last_moved, df>>

NextLoad == GraphFromJson

SpecLoad == InitEmpty /\ [][NextLoad]_vars

----------------------------------------------------------------------------
(* Vocabulary of the properties *)

Returned == last = "change_vertex_district returned"

RaisedError ==
    last \in {"ValueError: already in the district",
              "ValueError: not on the border"}

BorderKeys == DOMAIN vertex_on_border

\* vertex v has a neighbour that is currently in district d, another
\* district than its own
BordersDistrict(v, d) ==
    /\ d # district_id[v]
    /\ \E n \in adj_vertices[v] : district_id[n] = d

\* the call change_vertex_district(v, d) would return here
Accepted(v, d) ==
    /\ ~AlreadyInDistrict(district_id, v, d)
    /\ ~NotOnBorder(vertex_on_border, v, d)
    /\ MoveVertex(CurrentBorder, district_id, adj_vertices, v, d).border.raised = ""

\* the entries of vertex w in both mappings
EntriesOf(vob, w) == [k \in {x \in DOMAIN vob : x[1] = w} |-> vob[k]]

SetOf(dob, w) == IF w \in DOMAIN dob THEN {dob[w]} ELSE {}

\* the path 1-2-3-4 (further vertices, if any, isolated), districts A A B B
A == CHOOSE d \in DistrictIds : \A e \in DistrictIds : d <= e
B == A + 1

PathAdjacency == AdjacencyOf({{1, 2}, {2, 3}, {3, 4}})

OnPath == adj_vertices = PathAdjacency

PathDistricts(d1, d2, d3, d4) ==
    /\ district_id[1] = d1
    /\ district_id[2] = d2
    /\ district_id[3] = d3
    /\ district_id[4] = d4

----------------------------------------------------------------------------
(* C1: after get_border_vertices and any sequence of calls of
   change_vertex_district, the keys of vertex_on_border are exactly the
   pairs (v, d) where d is not the district of v and some neighbour of v is
   in d. *)
C1_BorderIndexExact ==
    discovered =>
        BorderKeys = {k \in VertexIds \X DistrictIds : BordersDistrict(k[1], k[2])}

\* a move has returned, the moved vertex still borders a district and one
\* of its neighbours has stopped bordering any
C1_Witness ==
    /\ Returned
    /\ \E d \in DistrictIds : <<last_moved, d>> \in BorderKeys
    /\ \E n \in adj_vertices[last_moved] :
          /\ n \in DOMAIN district_id_on_border_of_vertex
          /\ district_id_on_border_of_vertex[n] = {}

(* C2: once the borders are discovered, change_vertex_district(v, d)
   returns exactly when d is not the district of v and some neighbour of v
   is in d; otherwise it raises. *)
C2_AcceptedIffBordering ==
    discovered =>
        \A v \in VertexIds, d \in DistrictIds :
            Accepted(v, d) <=> BordersDistrict(v, d)

\* after a move: the moved vertex may go back, and some vertex has a
\* district other than its own that it may not enter
C2_Witness ==
    /\ Returned
    /\ \E d \in DistrictIds : Accepted(last_moved, d)
    /\ \E v \in VertexIds, d \in DistrictIds :
          d # district_id[v] /\ ~Accepted(v, d)

(* C3: a call change_vertex_district(v, d) with d the current district of v
   raises and leaves the districts, both border mappings and the mirror as
   they were. *)
C3_SameDistrictRejected ==
    [][\A v \in VertexIds :
          ChangeVertexDistrict(v, district_id[v]) =>
              /\ RaisedError'
              /\ UNCHANGED <<district_id, vertex_on_border,
                             district_id_on_border_of_vertex, state>>]_vars

\* that call was made on a graph with border entries
C3_Witness ==
    /\ last = "ValueError: already in the district"
    /\ discovered
    /\ BorderKeys # {}

(* C4: once the borders are discovered, a call change_vertex_district(v, d)
   with no neighbour of v in d raises and leaves the districts, both border
   mappings and the mirror as they were. *)
C4_NonAdjacentRejected ==
    [][\A v \in VertexIds, d \in DistrictIds :
          (/\ discovered
           /\ \A n \in adj_vertices[v] : district_id[n] # d
           /\ ChangeVertexDistrict(v, d)) =>
              /\ RaisedError'
              /\ UNCHANGED <<district_id, vertex_on_border,
                             district_id_on_border_of_vertex, state>>]_vars

\* the path 1-2-3-4 in districts A A B B: a call was refused for the border
\* check (vertex 1 to B is such a call)
C4_Witness ==
    /\ OnPath
    /\ PathDistricts(A, A, B, B)
    /\ discovered
    /\ ~BordersDistrict(1, B)
    /\ last = "ValueError: not on the border"

(* C5: a call change_vertex_district(v, d) that returns leaves, for every
   vertex w that is neither v nor a neighbour of v, the set
   district_id_on_border_of_vertex[w] and the vertex_on_border entries whose
   key starts with w as they were. *)
C5_OtherVerticesUntouched ==
    [][\A v \in VertexIds :
          (Returned' /\ last_moved' = v) =>
              \A w \in VertexIds \ ({v} \cup adj_vertices[v]) :
                  /\ EntriesOf(vertex_on_border', w) = EntriesOf(vertex_on_border, w)
                  /\ SetOf(district_id_on_border_of_vertex', w)
                         = SetOf(district_id_on_border_of_vertex, w)]_vars

\* a move has returned and a vertex that is neither the moved one nor a
\* neighbour of it has border entries
C5_Witness ==
    /\ Returned
    /\ \E w \in VertexIds \ ({last_moved} \cup adj_vertices[last_moved]) :
          \E d \in DistrictIds : <<w, d>> \in BorderKeys

(* C6: after every call, (v, d) is a key of vertex_on_border exactly when
   d is a member of district_id_on_border_of_vertex[v]. *)
C6_LockStep ==
    BorderKeys =
        UNION {{<<v, d>> : d \in district_id_on_border_of_vertex[v]} :
                  v \in DOMAIN district_id_on_border_of_vertex}

\* a move has returned and its vertex borders two districts
C6_Witness ==
    /\ Returned
    /\ last_moved \in DOMAIN district_id_on_border_of_vertex
    /\ Cardinality(district_id_on_border_of_vertex[last_moved]) = 2

(* C7: after every call, the descriptor stored under (v, d) is
   (v, current district of v, d). *)
C7_DescriptorCurrent ==
    \A k \in BorderKeys :
        vertex_on_border[k] = <<k[1], district_id[k[1]], k[2]>>

\* a move has returned and the moved vertex has a descriptor
C7_Witness ==
    /\ Returned
    /\ \E k \in BorderKeys : k[1] = last_moved

(* C8: after every call, no vertex is a key of
   district_id_on_border_of_vertex with the empty set as its value. *)
C8_NoEmptyBorderSet ==
    \A v \in DOMAIN district_id_on_border_of_vertex :
        district_id_on_border_of_vertex[v] # {}

(* C9: a call of get_border_vertices after the first one leaves
   vertex_on_border, district_id_on_border_of_vertex and the mirror as they
   were. *)
C9_DiscoveryIdempotent ==
    [][(discovered /\ GetBorderVertices) =>
          UNCHANGED <<vertex_on_border, district_id_on_border_of_vertex, state>>]_vars

\* get_border_vertices has returned on a graph that holds an emptied set,
\* which only a move leaves behind: this was a later call, after a move
C9_Witness ==
    /\ last = "get_border_vertices returned"
    /\ BorderKeys # {}
    /\ \E v \in DOMAIN district_id_on_border_of_vertex :
          district_id_on_border_of_vertex[v] = {}

(* C10: on the path 1-2-3-4 in districts A A B B the discovered border
   index holds exactly (2, B) and (3, A); change_vertex_district(2, B)
   returns, and then the index holds exactly (1, B) and (2, A). *)
C10_PathScenario ==
    [][(OnPath /\ PathDistricts(A, A, B, B) /\ discovered) =>
          /\ BorderKeys = {<<2, B>>, <<3, A>>}
          /\ ChangeVertexDistrict(2, B) =>
                /\ Returned'
                /\ BorderKeys' = {<<1, B>>, <<2, A>>}]_vars

\* vertex 2 has been moved and the path is in districts A B B B
C10_Witness ==
    /\ OnPath
    /\ PathDistricts(A, B, B, B)
    /\ Returned
    /\ last_moved = 2
    /\ BorderKeys = {<<1, B>>, <<2, A>>}

(* C11: loading rows of which two have the same id ends in a configuration
   error, never in a graph in which one row has replaced the other. *)
C11_DuplicateIdsRejected ==
    (/\ last # "__init__"
     /\ \E i, j \in DOMAIN df : i # j /\ df[i].prescinct_id = df[j].prescinct_id)
        => last = "ConfigurationError"

\* vertex v has a neighbour in another district than its own
OnBorder(v) == \E n \in adj_vertices[v] : district_id[n] # district_id[v]

(* C12: once the borders are discovered, after every call the mirror holds,
   for every vertex, minus its district if it has a neighbour in another
   district and plus its district otherwise. *)
C12_MirrorAgrees ==
    discovered =>
        \A v \in VertexIds :
            state[v] = IF OnBorder(v) THEN -district_id[v] ELSE district_id[v]

\* a move has returned, the moved vertex is on the border and one of its
\* neighbours has left the border and is back to a positive entry
C12_Witness ==
    /\ Returned
    /\ state[last_moved] < 0
    /\ \E n \in adj_vertices[last_moved] :
          /\ n \in DOMAIN district_id_on_border_of_vertex
          /\ district_id_on_border_of_vertex[n] = {}
          /\ state[n] > 0

----------------------------------------------------------------------------
(* The move as the specification words it: the entries of every affected
   vertex are removed first, and only then are the entries of every affected
   vertex rebuilt. *)

RECURSIVE RemoveAll(_, _, _)
RemoveAll(b, dist, todo) ==
    IF todo = <<>> \/ b.raised # "" THEN b
    ELSE RemoveAll(RemoveBorderInfo(b, dist, Head(todo)), dist, Tail(todo))

RECURSIVE RebuildAll(_, _, _, _)
RebuildAll(b, dist, adj, todo) ==
    IF todo = <<>> \/ b.raised # "" THEN b
    ELSE LET w == Head(todo)
         IN RebuildAll(ScanAdjacent(b, dist, w, IterOrder(adj[w])),
                       dist, adj, Tail(todo))

TwoPhaseMove(b, dist, adj, v, d) ==
    LET dist1 == [dist EXCEPT ![v] = d]
        b1 == [b EXCEPT !.state = [@ EXCEPT ![v] = d]]
        affected == IterOrder(adj[v]) \o <<v>>
    IN [district_id |-> dist1,
        border |-> RebuildAll(RemoveAll(b1, dist1, affected), dist1, adj, affected)]

\* the pairs (w, d) with d a member of the set kept for w
Membership(dob) == UNION {{<<w, d>> : d \in dob[w]} : w \in DOMAIN dob}

(* C13: for every accepted call, the move of the code (each vertex of the
   list cleared and at once rebuilt) ends with the same vertex_on_border
   and the same members of the border sets as the two-phase move. *)
C13_SameAsTwoPhase ==
    \A v \in VertexIds, d \in DistrictIds :
        Accepted(v, d) =>
            \E c \in {MoveVertex(CurrentBorder, district_id, adj_vertices, v, d).border} :
            \E t \in {TwoPhaseMove(CurrentBorder, district_id, adj_vertices, v, d).border} :
                /\ c.raised = t.raised
                /\ c.vertex_on_border = t.vertex_on_border
                /\ Membership(c.district_id_on_border_of_vertex)
                       = Membership(t.district_id_on_border_of_vertex)

\* after a move, a call is accepted whose vertex and two of its neighbours
\* all hold border entries that the move will clear and rebuild
C13_Witness ==
    /\ Returned
    /\ \E v \in VertexIds, d \in DistrictIds :
          /\ Accepted(v, d)
          /\ \E n1, n2 \in adj_vertices[v] :
                /\ n1 # n2
                /\ \E k \in BorderKeys : k[1] = n1
                /\ \E k \in BorderKeys : k[1] = n2
          /\ MoveVertex(CurrentBorder, district_id, adj_vertices, v, d)
                 .border.vertex_on_border # EmptyDict

(* C14: whatever neighbour lists the rows give, symmetric or not, the
   vertices a move rebuilds are all the vertices whose border facts the
   move changes: after discovery and any calls, every vertex has a key
   (v, d) exactly for the other districts d that a vertex in its own
   neighbour list is in. *)
C14_ExactOnAnyAdjacency ==
    discovered =>
        \A v \in VertexIds, d \in DistrictIds :
            <<v, d>> \in BorderKeys <=> BordersDistrict(v, d)

\* some edge joins two vertices of different districts
CrossEdge == \E v \in VertexIds : OnBorder(v)

\* some call of change_vertex_district would return
SomeAccepted == \E v \in VertexIds, d \in DistrictIds : Accepted(v, d)

(* C15, as claimed: from a discovered graph with an edge between two
   districts, every state reached by successful moves still has a call that
   is accepted. *)
C15_AlwaysSomeMove ==
    [][(discovered /\ CrossEdge /\ Returned') => SomeAccepted']_vars

(* C15, amended: some call is accepted exactly while vertex_on_border holds
   a key, which on symmetric neighbour lists, once the borders are
   discovered, is exactly while some edge joins two vertices of different
   districts; a move may remove the last such edge, and then every call is
   rejected. *)
C15_MoveIffCrossEdge ==
    /\ SomeAccepted <=> BorderKeys # {}
    /\ discovered => (SomeAccepted <=> CrossEdge)

\* a move has returned on a graph with an edge, no edge joins two districts
\* any more and no call is accepted
C15_Witness ==
    /\ Returned
    /\ adj_vertices[last_moved] # {}
    /\ ~CrossEdge
    /\ ~SomeAccepted

\* the first half of the amended C15, by itself, for neighbour lists that
\* are not symmetric
MoveIffKey == SomeAccepted <=> BorderKeys # {}

(* C16: a call of change_vertex_district that returns changes the district
   of its vertex only; no call changes the set of vertices or any vertex's
   neighbour set, and no other call changes any district. *)
C16_OnlyMovedVertexChanges ==
    [][/\ DOMAIN district_id' = DOMAIN district_id
       /\ adj_vertices' = adj_vertices
       /\ \A w \in VertexIds :
             district_id'[w] # district_id[w] => (Returned' /\ last_moved' = w)]_vars

\* a move has returned; the moved vertex has a neighbour in its old or a
\* third district and another vertex shares the moved vertex's new district
C16_Witness ==
    /\ Returned
    /\ \E n \in adj_vertices[last_moved] : district_id[n] # district_id[last_moved]
    /\ \E w \in VertexIds \ {last_moved} : district_id[w] = district_id[last_moved]

(* C17: as long as get_border_vertices has not been called, every call of
   change_vertex_district raises and changes nothing, also when a neighbour
   of the vertex is in the target district. *)
C17_RejectedBeforeDiscovery ==
    [][\A v \in VertexIds, d \in DistrictIds :
          (~discovered /\ ChangeVertexDistrict(v, d)) =>
              /\ RaisedError'
              /\ UNCHANGED <<district_id, vertex_on_border,
                             district_id_on_border_of_vertex, state>>]_vars

\* a call was refused for the border check before any discovery, on a graph
\* where an edge joins two districts
C17_Witness ==
    /\ ~discovered
    /\ CrossEdge
    /\ last = "ValueError: not on the border"

\* the districts that hold at least one vertex
Held == {district_id[v] : v \in VertexIds}

(* C18: no call makes a district held that was not held before it, so the
   districts held in any reachable state are among those held at
   construction. *)
C18_NoDistrictCreated ==
    [][Held' \subseteq Held]_vars

\* a move has returned into the district of a neighbour, and more than one
\* district is held
C18_Witness ==
    /\ Returned
    /\ \E n \in adj_vertices[last_moved] : district_id[n] = district_id[last_moved]
    /\ Cardinality(Held) >= 2

(* C19, as claimed: every district held before a call of
   change_vertex_district that returns is still held after it. *)
C19_NoDistrictDeleted ==
    [][Returned' => Held \subseteq Held']_vars

(* C19, amended: a call that returns leaves held every district that was
   held before it, except the old district of the moved vertex exactly
   when the moved vertex was its only member. *)
C19_OnlyLoneDistrictDeleted ==
    [][\A v \in VertexIds :
          (Returned' /\ last_moved' = v) =>
              \A e \in Held :
                  e \in Held' <=>
                      ~(/\ e = district_id[v]
                        /\ \A w \in VertexIds \ {v} : district_id[w] # e)]_vars

\* a move has returned and district 1, which the first vertex held at
\* construction, is held by no vertex any more
C19_Witness ==
    /\ Returned
    /\ 1 \notin Held

====
